---- MODULE Spec2Model ----
(***************************************************************************)
(* Ledger validation core of building-btc-with-rust (lib crate):           *)
(* Blockchain::add_block / rebuild_utxos, Block::verify_transactions,      *)
(* verify_coinbase_transaction, calculate_miner_fees, MerkleRoot::calculate *)
(* and Hash.                                                               *)
(***************************************************************************)
EXTENDS Integers, Sequences, FiniteSets

\* ------------------------------------------------------------------ bounds
\* Longest chain the ledger specification grows.
MaxChain == 3
\* Nonces a candidate header is offered with: 0..MaxNonce.
MaxNonce == 1
\* Longest transaction list of a block handed to verify_transactions.
MaxTxs == 3

\* --------------------------------------------------------------- constants
\* 10u64.pow(8): smallest accounting units per coin.
SUBUNIT == 100000000
\* crate::INITIAL_REWARD, whole coins.
INITIAL_REWARD == 50
\* crate::HALVING_INTERVAL, blocks per halving epoch.
HALVING_INTERVAL == 210
\* Number of bits of u64: 2u64.pow(e) overflows from e = 64 on.
U64_BITS == 64

\* ------------------------------------------------------------ u64 amounts
\* A u64 amount v is held in two limbs, v = c * SUBUNIT + s with 0 <= s <
\* SUBUNIT, because INITIAL_REWARD * 10^8 does not fit TLC's 32-bit integers.
\* A negative c stands for the wrapped value 2^64 + v that a build without
\* overflow checks computes; every magnitude of the model is far below 2^63,
\* so equality of representatives is equality modulo 2^64.
Amt(c, s) == [c |-> c, s |-> s]

AmtZero == Amt(0, 0)

AmtAdd(a, b) ==
    LET t == a.s + b.s
    IN  Amt(a.c + b.c + (t \div SUBUNIT), t % SUBUNIT)

AmtSub(a, b) ==
    LET t == a.s - b.s
    IN  IF t >= 0 THEN Amt(a.c - b.c, t)
                  ELSE Amt(a.c - b.c - 1, t + SUBUNIT)

AmtLt(a, b) == a.c < b.c \/ (a.c = b.c /\ a.s < b.s)

\* a / 2 for a >= 0, integer division.
AmtHalf(a) == Amt(a.c \div 2, ((a.c % 2) * SUBUNIT + a.s) \div 2)

\* a / 2u64.pow(e) for 0 <= e < U64_BITS: e integer halvings, which is the
\* same as one integer division by 2^e.
RECURSIVE AmtDivPow2(_, _)
AmtDivPow2(a, e) == IF e = 0 THEN a ELSE AmtDivPow2(AmtHalf(a), e - 1)

\* ------------------------------------------------------------------ errors
Ok == "Ok"
InvalidBlock == "InvalidBlock"
InvalidMerkleRoot == "InvalidMerkleRoot"
InvalidTransaction == "InvalidTransaction"
InvalidSignature == "InvalidSignature"
\* The call did not return: the thread panicked.
Panic == "Panic"

BtcError == {InvalidBlock, InvalidMerkleRoot, InvalidTransaction, InvalidSignature}

\* -------------------------------------------------------------------- Hash
\* Hash::hash is SHA-256 over the CBOR encoding of the value.  It is modelled
\* as a collision-free constructor: the digest of a value is the value tagged
\* with the kind of structure that was encoded, so two digests are equal
\* exactly when the same kind of structure with the same content was hashed.
Hash_hash(kind, data) == <<kind, data>>

\* Hash(U256::zero())
Hash_zero == <<"zero", 0>>

\* Digests 1..DigestSpace are the numeric values a header digest can take.
DigestSpace == 4

\* The U256 inside a Hash.  Only header digests are ever compared with a
\* target; their number is a fixed function of the encoded header that moves
\* with the nonce, as grinding the nonce moves a SHA-256 digest.
U256Of(h) ==
    IF h = Hash_zero THEN 0
    ELSE IF h[1] = "BlockHeader"
         THEN 1 + ((3 * h[2].nonce + h[2].timestamp) % DigestSpace)
         ELSE DigestSpace

matches_target(h, target) == U256Of(h) <= target

TransactionOutput_hash(output) == Hash_hash("TransactionOutput", output)

Transaction_hash(transaction) == Hash_hash("Transaction", transaction)

BlockHeader_hash(header) == Hash_hash("BlockHeader", header)

Block_hash(block) == Hash_hash("Block", block)

\* ------------------------------------------------------------- MerkleRoot
\* One pass over the layer that hands a trailing unpaired hash up as it is.
RECURSIVE MerkleLayer_promote_odd(_)
MerkleLayer_promote_odd(layer) ==
    IF layer = <<>> THEN <<>>
    ELSE IF Len(layer) = 1 THEN layer
    ELSE <<Hash_hash("pair", <<layer[1], layer[2]>>)>>
             \o MerkleLayer_promote_odd(SubSeq(layer, 3, Len(layer)))

\* One pass of `for pair in layer.chunks(2)`.
RECURSIVE MerkleLayer(_)
MerkleLayer(layer) ==
    IF layer = <<>> THEN <<>>
    ELSE LET left == layer[1]
             right == IF Len(layer) >= 2 THEN layer[2] ELSE layer[1]
             rest == IF Len(layer) >= 2 THEN SubSeq(layer, 3, Len(layer)) ELSE <<>>
         IN  <<Hash_hash("pair", <<left, right>>)>> \o MerkleLayer(rest)

RECURSIVE MerkleFold(_)
MerkleFold(layer) == IF Len(layer) > 1 THEN MerkleFold(MerkleLayer(layer)) ELSE layer

\* MerkleRoot::calculate: [tag |-> Ok, root |-> h], or Panic on layer[0] of an
\* empty list.
MerkleRoot_calculate(transactions) ==
    LET layer == MerkleFold([i \in 1..Len(transactions) |-> Transaction_hash(transactions[i])])
    IN  IF layer = <<>> THEN [tag |-> Panic, root |-> Hash_zero]
        ELSE [tag |-> Ok, root |-> layer[1]]

\* ------------------------------------------------------------------ crypto
\* A signature records who signed which message; verification succeeds exactly
\* for the signer's key and the signed message.
Sign(key, message) == [signer |-> key, message |-> message]

Signature_verify(signature, message, pubkey) ==
    signature.signer = pubkey /\ signature.message = message

\* ------------------------------------------------------------------- state
VARIABLES
    blocks,           \* Blockchain.blocks
    utxos,            \* Blockchain.utxos: a function from Hash to TransactionOutput
    overflow_checks,  \* build profile: TRUE when integer overflow panics
    fresh,            \* TRUE while the ledger is the one Blockchain::new() built
    op,               \* the last ledger operation
    arg,              \* the block handed to the last add_block
    result,           \* what the last operation returned
    pre_blocks,       \* blocks before the last operation
    pre_utxos,        \* utxos before the last operation
    vt_block,         \* receiver of the last verify_transactions call
    vt_height,        \* its predicted_block_height
    vt_utxos,         \* its utxos snapshot
    vt_result,        \* what it returned
    fee_result,       \* what the last calculate_miner_fees call returned
    cb_result,        \* what the last verify_coinbase_transaction call returned
    merkle_result     \* what the last MerkleRoot::calculate call returned

vars == <<blocks, utxos, overflow_checks, fresh, op, arg, result, pre_blocks,
          pre_utxos, vt_block, vt_height, vt_utxos, vt_result, fee_result,
          cb_result, merkle_result>>

\* ---------------------------------------------------------------- HashMap
EmptyMap == <<>>

MapInsert(m, k, v) == [x \in (DOMAIN m) \cup {k} |-> IF x = k THEN v ELSE m[x]]

MapRemove(m, k) == [x \in (DOMAIN m) \ {k} |-> m[x]]

\* map.values().map(|output| output.value).sum()
RECURSIVE SumMapValues(_)
SumMapValues(m) ==
    IF DOMAIN m = {} THEN AmtZero
    ELSE LET k == CHOOSE x \in DOMAIN m : TRUE
         IN  AmtAdd(m[k].value, SumMapValues(MapRemove(m, k)))

\* outputs.iter().map(|output| output.value).sum()
RECURSIVE SumOutputs(_)
SumOutputs(outputs) ==
    IF outputs = <<>> THEN AmtZero
    ELSE AmtAdd(outputs[1].value, SumOutputs(Tail(outputs)))

\* ------------------------------------------------- Block validation pipeline
\* The input loop of calculate_miner_fees without its
\* `inputs.contains_key` test.
RECURSIVE FeeInputs_no_contains_key(_, _, _, _)
FeeInputs_no_contains_key(ins, i, inputs, snapshot) ==
    IF i > Len(ins) THEN [tag |-> Ok, inputs |-> inputs]
    ELSE LET key == ins[i].prev_transaction_output_hash
         IN  IF key \notin DOMAIN snapshot
                 THEN [tag |-> InvalidTransaction, inputs |-> inputs]
             ELSE FeeInputs_no_contains_key(ins, i + 1,
                      MapInsert(inputs, key, snapshot[key]), snapshot)

\* The input loop of calculate_miner_fees with `utxos.get(..).unwrap()` in
\* place of the test for an unresolved input.
RECURSIVE FeeInputs_unwrap_unresolved(_, _, _, _)
FeeInputs_unwrap_unresolved(ins, i, inputs, snapshot) ==
    IF i > Len(ins) THEN [tag |-> Ok, inputs |-> inputs]
    ELSE LET key == ins[i].prev_transaction_output_hash
         IN  IF key \notin DOMAIN snapshot
                 THEN [tag |-> Panic, inputs |-> inputs]
             ELSE IF key \in DOMAIN inputs
                 THEN [tag |-> InvalidTransaction, inputs |-> inputs]
             ELSE FeeInputs_unwrap_unresolved(ins, i + 1,
                      MapInsert(inputs, key, snapshot[key]), snapshot)

\* The input loop of calculate_miner_fees for one transaction, from input i on.
RECURSIVE FeeInputs(_, _, _, _)
FeeInputs(ins, i, inputs, snapshot) ==
    IF i > Len(ins) THEN [tag |-> Ok, inputs |-> inputs]
    ELSE LET key == ins[i].prev_transaction_output_hash
         IN  IF key \notin DOMAIN snapshot
                 THEN [tag |-> InvalidTransaction, inputs |-> inputs]
             ELSE IF key \in DOMAIN inputs
                 THEN [tag |-> InvalidTransaction, inputs |-> inputs]
             ELSE FeeInputs(ins, i + 1, MapInsert(inputs, key, snapshot[key]), snapshot)

\* The output loop of calculate_miner_fees for one transaction, from output i on.
RECURSIVE FeeOutputs(_, _, _)
FeeOutputs(outs, i, outputs) ==
    IF i > Len(outs) THEN [tag |-> Ok, outputs |-> outputs]
    ELSE LET key == TransactionOutput_hash(outs[i])
         IN  IF key \in DOMAIN outputs
                 THEN [tag |-> InvalidTransaction, outputs |-> outputs]
             ELSE FeeOutputs(outs, i + 1, MapInsert(outputs, key, outs[i]))

\* `for transaction in self.transactions.iter().skip(1)`, from transaction t on.
RECURSIVE FeeScan(_, _, _, _, _)
FeeScan(txs, t, inputs, outputs, snapshot) ==
    IF t > Len(txs) THEN [tag |-> Ok, inputs |-> inputs, outputs |-> outputs]
    ELSE LET ri == FeeInputs(txs[t].inputs, 1, inputs, snapshot)
         IN  IF ri.tag # Ok
                 THEN [tag |-> ri.tag, inputs |-> inputs, outputs |-> outputs]
             ELSE LET ro == FeeOutputs(txs[t].outputs, 1, outputs)
                  IN  IF ro.tag # Ok
                          THEN [tag |-> ro.tag, inputs |-> inputs, outputs |-> outputs]
                      ELSE FeeScan(txs, t + 1, ri.inputs, ro.outputs, snapshot)

\* input_value - output_value on u64: with overflow checks a negative
\* difference panics, without them it wraps.
U64Sub(a, b) ==
    IF AmtLt(a, b) /\ overflow_checks
        THEN [tag |-> Panic, val |-> AmtZero]
        ELSE [tag |-> Ok, val |-> AmtSub(a, b)]

\* Block::calculate_miner_fees: [tag, val], val the fee when tag = Ok.
calculate_miner_fees(block, snapshot) ==
    LET scan == FeeScan(block.transactions, 2, EmptyMap, EmptyMap, snapshot)
    IN  IF scan.tag # Ok THEN [tag |-> scan.tag, val |-> AmtZero]
        ELSE U64Sub(SumMapValues(scan.inputs), SumMapValues(scan.outputs))

\* INITIAL_REWARD * 10u64.pow(8) / 2u64.pow((height / HALVING_INTERVAL) as u32).
\* 2u64.pow(e) for e >= 64 panics with overflow checks and is 0 without them,
\* and the division by 0 panics: either build panics.  (The cast to u32 is the
\* identity on every height of the model.)
block_reward(predicted_block_height) ==
    LET e == predicted_block_height \div HALVING_INTERVAL
    IN  IF e >= U64_BITS THEN [tag |-> Panic, val |-> AmtZero]
        ELSE [tag |-> Ok, val |-> AmtDivPow2(Amt(INITIAL_REWARD, 0), e)]

\* Block::verify_coinbase_transaction.
verify_coinbase_transaction(block, predicted_block_height, snapshot) ==
    IF block.transactions = <<>> THEN Panic
    ELSE LET coinbase_transaction == block.transactions[1]
         IN  IF Len(coinbase_transaction.inputs) # 0 THEN InvalidTransaction
             ELSE IF Len(coinbase_transaction.outputs) = 0 THEN InvalidTransaction
             ELSE LET miner_fees == calculate_miner_fees(block, snapshot)
                  IN  IF miner_fees.tag # Ok THEN miner_fees.tag
                      ELSE LET reward == block_reward(predicted_block_height)
                               total_coinbase_outputs ==
                                   SumOutputs(coinbase_transaction.outputs)
                           IN  IF reward.tag # Ok THEN reward.tag
                               ELSE IF total_coinbase_outputs
                                       # AmtAdd(reward.val, miner_fees.val)
                                   THEN InvalidTransaction
                               ELSE Ok

\* The input loop of verify_transactions for one transaction, from input i on:
\* [tag, inputs, input_value].
RECURSIVE VerifyInputs(_, _, _, _, _)
VerifyInputs(ins, i, inputs, input_value, snapshot) ==
    IF i > Len(ins)
        THEN [tag |-> Ok, inputs |-> inputs, input_value |-> input_value]
    ELSE LET key == ins[i].prev_transaction_output_hash
             stop(e) == [tag |-> e, inputs |-> inputs, input_value |-> input_value]
         IN  IF key \notin DOMAIN snapshot THEN stop(InvalidTransaction)
             ELSE IF key \in DOMAIN inputs THEN stop(InvalidTransaction)
             ELSE IF ~Signature_verify(ins[i].signature, key, snapshot[key].pubkey)
                 THEN stop(InvalidSignature)
             ELSE VerifyInputs(ins, i + 1, MapInsert(inputs, key, snapshot[key]),
                               AmtAdd(input_value, snapshot[key].value), snapshot)

\* The transaction loop of verify_transactions without its
\* `input_value < output_value` test.
RECURSIVE VerifyLoop_no_value_check(_, _, _, _)
VerifyLoop_no_value_check(txs, t, inputs, snapshot) ==
    IF t > Len(txs) THEN Ok
    ELSE LET ri == VerifyInputs(txs[t].inputs, 1, inputs, AmtZero, snapshot)
         IN  IF ri.tag # Ok THEN ri.tag
             ELSE VerifyLoop_no_value_check(txs, t + 1, ri.inputs, snapshot)

\* `for transaction in &self.transactions` of verify_transactions, from
\* transaction t on.
RECURSIVE VerifyLoop(_, _, _, _)
VerifyLoop(txs, t, inputs, snapshot) ==
    IF t > Len(txs) THEN Ok
    ELSE LET ri == VerifyInputs(txs[t].inputs, 1, inputs, AmtZero, snapshot)
             output_value == SumOutputs(txs[t].outputs)
         IN  IF ri.tag # Ok THEN ri.tag
             ELSE IF AmtLt(ri.input_value, output_value) THEN InvalidTransaction
             ELSE VerifyLoop(txs, t + 1, ri.inputs, snapshot)

\* Block::verify_transactions.
verify_transactions(block, predicted_block_height, snapshot) ==
    IF block.transactions = <<>> THEN InvalidBlock
    ELSE LET coinbase == verify_coinbase_transaction(block, predicted_block_height, snapshot)
         IN  IF coinbase # Ok THEN coinbase
             ELSE VerifyLoop(block.transactions, 1, EmptyMap, snapshot)

\* ------------------------------------------------------------------ Ledger
\* Blockchain::block_height
block_height(chain) == Len(chain)

\* The checks of add_block's inner else branch, which runs with
\* self.blocks.last() and ends in the result of verify_transactions.
LinkedBlockChecks(chain, index, block) ==
    IF chain = <<>> THEN Panic          \* self.blocks.last().unwrap() on None
    ELSE LET last_block == chain[Len(chain)]
         IN  IF block.header.prev_block_hash # Block_hash(last_block)
                 THEN InvalidBlock
             ELSE IF ~matches_target(BlockHeader_hash(block.header), block.header.target)
                 THEN InvalidBlock
             ELSE LET callculated_merkle_root == MerkleRoot_calculate(block.transactions)
                  IN  IF callculated_merkle_root.tag # Ok THEN callculated_merkle_root.tag
                      ELSE IF callculated_merkle_root.root # block.header.merkle_root
                          THEN InvalidMerkleRoot
                      ELSE IF block.header.timestamp <= last_block.header.timestamp
                          THEN InvalidBlock
                      ELSE verify_transactions(block, block_height(chain), index)

\* add_block with the push moved in front of the checks: a rejected first
\* block stays in the chain.
add_block_push_first(chain, index, block) ==
    LET pushed(e) == [tag |-> e, blocks |-> Append(chain, block), utxos |-> index]
    IN  IF chain = <<>>
            THEN IF block.header.prev_block_hash # Hash_zero
                     THEN pushed(InvalidBlock)
                 ELSE LET checks == LinkedBlockChecks(chain, index, block)
                      IN  pushed(checks)
        ELSE pushed(Ok)

\* add_block with `self.blocks.insert(0, block)` in place of the push.
add_block_insert_front(chain, index, block) ==
    LET keep(e) == [tag |-> e, blocks |-> chain, utxos |-> index]
        push == [tag |-> Ok, blocks |-> <<block>> \o chain, utxos |-> index]
    IN  IF chain = <<>>
            THEN IF block.header.prev_block_hash # Hash_zero
                     THEN keep(InvalidBlock)
                 ELSE LET checks == LinkedBlockChecks(chain, index, block)
                      IN  IF checks # Ok THEN keep(checks) ELSE push
        ELSE push

\* Blockchain::add_block: [tag, blocks, utxos], the ledger after the call and
\* what the call returned.
add_block(chain, index, block) ==
    LET keep(e) == [tag |-> e, blocks |-> chain, utxos |-> index]
        push == [tag |-> Ok, blocks |-> Append(chain, block), utxos |-> index]
    IN  IF chain = <<>>
            THEN IF block.header.prev_block_hash # Hash_zero
                     THEN keep(InvalidBlock)
                 ELSE LET checks == LinkedBlockChecks(chain, index, block)
                      IN  IF checks # Ok THEN keep(checks) ELSE push
        ELSE push

\* The output loop of rebuild_utxos adding the value to the entry the key
\* already holds instead of replacing the entry.
RECURSIVE InsertOutputs_accumulate(_, _, _, _)
InsertOutputs_accumulate(index, key, outs, i) ==
    IF i > Len(outs) THEN index
    ELSE LET merged == IF key \in DOMAIN index
                           THEN [outs[i] EXCEPT !.value = AmtAdd(index[key].value, @)]
                           ELSE outs[i]
         IN  InsertOutputs_accumulate(MapInsert(index, key, merged), key, outs, i + 1)

\* `for output in transaction.outputs.iter()` of rebuild_utxos, from output i on.
RECURSIVE InsertOutputs(_, _, _, _)
InsertOutputs(index, key, outs, i) ==
    IF i > Len(outs) THEN index
    ELSE InsertOutputs(MapInsert(index, key, outs[i]), key, outs, i + 1)

\* `for input in &transaction.inputs` of rebuild_utxos, from input i on.
RECURSIVE RemoveInputs(_, _, _)
RemoveInputs(index, ins, i) ==
    IF i > Len(ins) THEN index
    ELSE RemoveInputs(MapRemove(index, ins[i].prev_transaction_output_hash), ins, i + 1)

\* `for transaction in &block.transactions` of rebuild_utxos, from transaction t on.
RECURSIVE ReplayTransactions(_, _, _)
ReplayTransactions(index, txs, t) ==
    IF t > Len(txs) THEN index
    ELSE ReplayTransactions(
             InsertOutputs(RemoveInputs(index, txs[t].inputs, 1),
                           Transaction_hash(txs[t]), txs[t].outputs, 1),
             txs, t + 1)

\* `for block in &self.blocks` of rebuild_utxos, from block b on.
RECURSIVE ReplayBlocks(_, _, _)
ReplayBlocks(index, chain, b) ==
    IF b > Len(chain) THEN index
    ELSE ReplayBlocks(ReplayTransactions(index, chain[b].transactions, 1), chain, b + 1)

\* Blockchain::rebuild_utxos: the index after the call.  The loop starts from
\* the index as it is.
rebuild_utxos(chain, index) == ReplayBlocks(index, chain, 1)

\* ------------------------------------------------------------ constructors
\* TransactionOutput { value, unique_id, pubkey }
TransactionOutput(value, unique_id, pubkey) ==
    [value |-> value, unique_id |-> unique_id, pubkey |-> pubkey]

\* TransactionInput { prev_transaction_output_hash, signature }
TransactionInput(prev, signature) ==
    [prev_transaction_output_hash |-> prev, signature |-> signature]

\* Transaction::new
Transaction(inputs, outputs) == [inputs |-> inputs, outputs |-> outputs]

\* BlockHeader::new
BlockHeader(timestamp, nonce, prev_block_hash, merkle_root, target) ==
    [timestamp |-> timestamp, nonce |-> nonce, prev_block_hash |-> prev_block_hash,
     merkle_root |-> merkle_root, target |-> target]

\* Block::new
Block(header, transactions) == [header |-> header, transactions |-> transactions]

\* ------------------------------------------------- inputs of the ledger runs
Alice == "alice"
Bob == "bob"

\* The proof-of-work target candidate headers carry.
Target == 2

\* The subsidy of the first epoch, INITIAL_REWARD coins.
FullReward == Amt(INITIAL_REWARD, 0)

\* The coinbase of the stored genesis block and the key rebuild_utxos files its
\* output under.
GenesisCoinbase == Transaction(<<>>, <<TransactionOutput(FullReward, 0, Alice)>>)

GenesisKey == Transaction_hash(GenesisCoinbase)

GenesisBlock ==
    Block(BlockHeader(1, 0, Hash_zero,
                      MerkleRoot_calculate(<<GenesisCoinbase>>).root, Target),
          <<GenesisCoinbase>>)

\* A merkle root that belongs to no offered transaction list.
BogusRoot == Hash_hash("pair", <<Hash_zero, Hash_zero>>)

\* A transaction spending the genesis output with a fee of 10 units.
SpendGenesis(height) ==
    Transaction(<<TransactionInput(GenesisKey, Sign(Alice, GenesisKey))>>,
                <<TransactionOutput(Amt(INITIAL_REWARD - 1, SUBUNIT - 10), 100 + height, Bob)>>)

\* Transaction lists offered at a height: none, a lone coinbase, a coinbase
\* collecting the fee of a spend of the genesis output.
LedgerTxLists(height) ==
    { <<>>,
      <<Transaction(<<>>, <<TransactionOutput(FullReward, height, Bob)>>)>>,
      <<Transaction(<<>>, <<TransactionOutput(Amt(INITIAL_REWARD, 10), height, Bob)>>),
        SpendGenesis(height)>> }

\* How a candidate departs from a well-formed successor of the last block.
Faults == {"none", "link_block_hash", "link_zero", "merkle", "timestamp"}

\* The merkle root a candidate declares for its transactions.
DeclaredRoot(txs, fault) ==
    IF fault = "merkle" \/ txs = <<>> THEN BogusRoot
    ELSE MerkleRoot_calculate(txs).root

\* Candidate blocks for a non-empty chain.
Successors(chain) ==
    LET last == chain[Len(chain)]
        prev(fault) == IF fault = "link_zero" THEN Hash_zero
                       ELSE IF fault = "link_block_hash" THEN Block_hash(last)
                       ELSE BlockHeader_hash(last.header)
        time(fault) == IF fault = "timestamp" THEN last.header.timestamp
                       ELSE last.header.timestamp + 1
    IN  { Block(BlockHeader(time(f), n, prev(f), DeclaredRoot(txs, f), Target), txs) :
            f \in Faults, n \in 0..MaxNonce, txs \in LedgerTxLists(Len(chain)) }

\* Candidate blocks for an empty chain: parent zero, or a non-zero parent.
Firsts ==
    { Block(BlockHeader(1, n, p, DeclaredRoot(txs, "none"), Target), txs) :
        n \in 0..MaxNonce, p \in {Hash_zero, Block_hash(GenesisBlock)},
        txs \in LedgerTxLists(0) }

Candidates(chain) == IF chain = <<>> THEN Firsts ELSE Successors(chain)

NoBlock == Block(BlockHeader(0, 0, Hash_zero, BogusRoot, 0), <<>>)

\* ------------------------------------------------------------ ledger actions
\* The value of a result variable before the call it records.
NotCalled == [tag |-> "none"]

\* Blockchain::new(), built for either profile.
Init ==
    /\ blocks = <<>>
    /\ utxos = EmptyMap
    /\ overflow_checks \in BOOLEAN
    /\ fresh = TRUE
    /\ op = "new"
    /\ arg = NoBlock
    /\ result = Ok
    /\ pre_blocks = <<>>
    /\ pre_utxos = EmptyMap
    /\ vt_block = NoBlock
    /\ vt_height = 0
    /\ vt_utxos = EmptyMap
    /\ vt_result = "none"
    /\ fee_result = NotCalled
    /\ cb_result = "none"
    /\ merkle_result = NotCalled

VerifyUnchanged ==
    UNCHANGED <<vt_block, vt_height, vt_utxos, vt_result, fee_result, cb_result,
                merkle_result>>

\* A ledger holding a stored genesis block comes from the public fields or the
\* derived Deserialize, not from add_block.
Deserialize ==
    /\ op = "new"
    /\ blocks' = <<GenesisBlock>>
    /\ utxos' = EmptyMap
    /\ fresh' = FALSE
    /\ op' = "deserialize"
    /\ result' = Ok
    /\ pre_blocks' = blocks
    /\ pre_utxos' = utxos
    /\ UNCHANGED <<overflow_checks, arg>>
    /\ VerifyUnchanged

AddBlock ==
    /\ result # Panic
    /\ Len(blocks) < MaxChain
    /\ \E block \in Candidates(blocks) :
        LET r == add_block(blocks, utxos, block)
        IN  /\ blocks' = r.blocks
            /\ utxos' = r.utxos
            /\ result' = r.tag
            /\ arg' = block
    /\ op' = "add_block"
    /\ pre_blocks' = blocks
    /\ pre_utxos' = utxos
    /\ UNCHANGED <<overflow_checks, fresh>>
    /\ VerifyUnchanged

RebuildUtxos ==
    /\ result # Panic
    /\ utxos' = rebuild_utxos(blocks, utxos)
    /\ op' = "rebuild_utxos"
    /\ result' = Ok
    /\ pre_blocks' = blocks
    /\ pre_utxos' = utxos
    /\ UNCHANGED <<blocks, overflow_checks, fresh, arg>>
    /\ VerifyUnchanged

Next == Deserialize \/ AddBlock \/ RebuildUtxos

Spec == Init /\ [][Next]_vars

\* ------------------------------------- inputs of the verification runs
\* Two spendable outputs of 100 units and the keys a snapshot files them under.
Unspent1 == TransactionOutput(Amt(0, 100), 1, Alice)
Unspent2 == TransactionOutput(Amt(0, 100), 2, Bob)

Key1 == TransactionOutput_hash(Unspent1)
Key2 == TransactionOutput_hash(Unspent2)

SnapshotEntry(k) == IF k = Key1 THEN Unspent1 ELSE Unspent2

Snapshots == { [k \in D |-> SnapshotEntry(k)] : D \in SUBSET {Key1, Key2} }

\* A coinbase paying the listed amounts to Bob.
Coinbase(values) ==
    Transaction(<<>>, [i \in 1..Len(values) |-> TransactionOutput(values[i], 20 + i, Bob)])

Coinbases ==
    { Coinbase(<<FullReward>>),
      Coinbase(<<Amt(INITIAL_REWARD, 1)>>),
      Coinbase(<<AmtHalf(FullReward)>>),
      Coinbase(<<Amt(INITIAL_REWARD, 10)>>),
      Coinbase(<<Amt(INITIAL_REWARD, 11)>>),
      Coinbase(<<Amt(INITIAL_REWARD - 20, 0), Amt(20, 0)>>),
      Coinbase(<<AmtZero>>),
      Coinbase(<<>>) }

\* A transaction spending the listed keys, each signed by `signer`, into one
\* output of `units` units.
Spend(keys, signer, units, unique_id) ==
    Transaction([i \in 1..Len(keys) |-> TransactionInput(keys[i], Sign(signer, keys[i]))],
                <<TransactionOutput(Amt(0, units), unique_id, Bob)>>)

\* The output the first spend creates, as an input names it.
ChainedKey == TransactionOutput_hash(TransactionOutput(Amt(0, 90), 31, Bob))

Spends ==
    { Spend(<<Key1>>, Alice, 90, 31),        \* 100 into 90, fee 10
      Spend(<<Key1>>, Alice, 95, 32),        \* a second spender of Key1
      Spend(<<Key1>>, Bob, 90, 33),          \* signed with the wrong key
      Spend(<<Key1>>, Alice, 110, 34),       \* spends more than it holds
      Spend(<<Key2>>, Bob, 100, 35),         \* no fee
      Spend(<<Key1, Key1>>, Alice, 90, 36),  \* the same output twice
      Spend(<<ChainedKey>>, Bob, 80, 37) }   \* spends the output of the first

\* Sequences over a set, of at most n elements.
RECURSIVE SeqsUpTo(_, _)
SeqsUpTo(S, n) ==
    IF n = 0 THEN {<<>>}
    ELSE LET shorter == SeqsUpTo(S, n - 1)
         IN  shorter \cup { <<x>> \o q : x \in S, q \in { r \in shorter : Len(r) = n - 1 } }

\* Transaction lists handed to verify_transactions: empty, or any transaction
\* first, then spends and at most input-less transactions.
VerifyTxLists ==
    {<<>>} \cup
    { <<first>> \o rest :
        first \in Coinbases \cup Spends,
        rest \in SeqsUpTo(Spends \cup {Coinbase(<<FullReward>>)}, MaxTxs - 1) }

\* Heights: first epoch, its last block, second epoch, an epoch with no
\* subsidy left, an epoch past the width of u64.
VerifyHeights ==
    {0, HALVING_INTERVAL - 1, HALVING_INTERVAL, 33 * HALVING_INTERVAL,
     U64_BITS * HALVING_INTERVAL}

\* ---------------------------------------------------- verification actions
InitVerify ==
    /\ blocks = <<>>
    /\ utxos = EmptyMap
    /\ overflow_checks \in BOOLEAN
    /\ fresh = TRUE
    /\ op = "new"
    /\ arg = NoBlock
    /\ result = Ok
    /\ pre_blocks = <<>>
    /\ pre_utxos = EmptyMap
    /\ vt_block = NoBlock
    /\ vt_height = 0
    /\ vt_utxos \in Snapshots
    /\ vt_result = "none"
    /\ fee_result = NotCalled
    /\ cb_result = "none"
    /\ merkle_result = NotCalled

\* No verification call has run yet.
Uncalled ==
    /\ vt_result = "none"
    /\ fee_result = NotCalled
    /\ cb_result = "none"
    /\ merkle_result = NotCalled

LedgerUnchanged ==
    UNCHANGED <<blocks, utxos, overflow_checks, fresh, op, arg, result, pre_blocks,
                pre_utxos>>

\* block.verify_transactions(predicted_block_height, &utxos), once per run: the
\* function reads its arguments only, so one call per run covers every call.
VerifyTransactions ==
    /\ Uncalled
    /\ \E txs \in VerifyTxLists, height \in VerifyHeights :
        LET block == Block(NoBlock.header, txs)
        IN  /\ vt_block' = block
            /\ vt_height' = height
            /\ vt_result' = verify_transactions(block, height, vt_utxos)
    /\ UNCHANGED <<vt_utxos, fee_result, cb_result, merkle_result>>
    /\ LedgerUnchanged

\* block.calculate_miner_fees(&utxos), once per run.
CalculateMinerFees ==
    /\ Uncalled
    /\ \E txs \in VerifyTxLists :
        LET block == Block(NoBlock.header, txs)
        IN  /\ vt_block' = block
            /\ fee_result' = calculate_miner_fees(block, vt_utxos)
    /\ UNCHANGED <<vt_height, vt_utxos, vt_result, cb_result, merkle_result>>
    /\ LedgerUnchanged

\* block.verify_coinbase_transaction(predicted_block_height, &utxos), once per
\* run.
VerifyCoinbaseTransaction ==
    /\ Uncalled
    /\ \E txs \in VerifyTxLists, height \in VerifyHeights :
        LET block == Block(NoBlock.header, txs)
        IN  /\ vt_block' = block
            /\ vt_height' = height
            /\ cb_result' = verify_coinbase_transaction(block, height, vt_utxos)
    /\ UNCHANGED <<vt_utxos, vt_result, fee_result, merkle_result>>
    /\ LedgerUnchanged

\* MerkleRoot::calculate(&block.transactions), once per run.
MerkleRootCalculate ==
    /\ Uncalled
    /\ \E txs \in VerifyTxLists :
        /\ vt_block' = Block(NoBlock.header, txs)
        /\ merkle_result' = MerkleRoot_calculate(txs)
    /\ UNCHANGED <<vt_height, vt_utxos, vt_result, fee_result, cb_result>>
    /\ LedgerUnchanged

NextVerify ==
    \/ VerifyTransactions
    \/ CalculateMinerFees
    \/ VerifyCoinbaseTransaction
    \/ MerkleRootCalculate

SpecVerify == InitVerify /\ [][NextVerify]_vars

\* ------------------------------------------------- helpers of the properties
LastOf(chain) == chain[Len(chain)]

\* The index obtained by replaying a chain from an empty index.
ReplayFromEmpty(chain) == ReplayBlocks(EmptyMap, chain, 1)

\* The prior outputs a block's inputs reference.
InputKeys(block) ==
    UNION { { block.transactions[t].inputs[i].prev_transaction_output_hash :
                i \in 1..Len(block.transactions[t].inputs) } :
            t \in 1..Len(block.transactions) }

AddedToNonEmpty == op = "add_block" /\ pre_blocks # <<>>

Rejected(e) == result = e /\ blocks = pre_blocks

\* ------------------------------------------------------------------ claims
\* C1: add_block on an empty ledger returns: with an all-zero parent it
\* returns Ok and the ledger holds exactly the block, with a non-zero parent
\* it returns InvalidBlock and the ledger stays empty; it never panics.
C1_GenesisAcceptance ==
    (op = "add_block" /\ pre_blocks = <<>>) =>
        /\ result # Panic
        /\ arg.header.prev_block_hash = Hash_zero =>
               (result = Ok /\ blocks = <<arg>>)
        /\ arg.header.prev_block_hash # Hash_zero =>
               (result = InvalidBlock /\ blocks = <<>>)

\* C2: on a non-empty ledger a block whose parent is not the hash of the last
\* block's header is rejected with InvalidBlock and the length is unchanged;
\* every block after the first links to the header hash of its predecessor.
C2_ChainLinkage ==
    /\ (AddedToNonEmpty
        /\ arg.header.prev_block_hash # BlockHeader_hash(LastOf(pre_blocks).header))
           => (result = InvalidBlock /\ Len(blocks) = Len(pre_blocks))
    /\ \A i \in 2..Len(blocks) :
           blocks[i].header.prev_block_hash = BlockHeader_hash(blocks[i - 1].header)

\* C3: an add_block that returns an error leaves blocks and utxos as they
\* were, one that returns Ok grows the chain by exactly one block, and there
\* is no outcome in between.
C3_FailureAtomicity ==
    op = "add_block" =>
        /\ result \in BtcError => (blocks = pre_blocks /\ utxos = pre_utxos)
        /\ result = Ok => Len(blocks) = Len(pre_blocks) + 1
        /\ \/ blocks = pre_blocks /\ utxos = pre_utxos
           \/ result = Ok /\ Len(blocks) = Len(pre_blocks) + 1

\* An add_block returned InvalidBlock and the ledger is what it was.
C3_Witness ==
    op = "add_block" /\ result = InvalidBlock
    /\ blocks = pre_blocks /\ utxos = pre_utxos

\* What the validation rules ask of a successor of a non-empty chain.
ValidSuccessor(chain, index, block) ==
    /\ block.header.prev_block_hash = BlockHeader_hash(LastOf(chain).header)
    /\ matches_target(BlockHeader_hash(block.header), block.header.target)
    /\ MerkleRoot_calculate(block.transactions)
           = [tag |-> Ok, root |-> block.header.merkle_root]
    /\ block.header.timestamp > LastOf(chain).header.timestamp
    /\ verify_transactions(block, block_height(chain), index) = Ok

\* C4: on a non-empty ledger a block whose header hash exceeds its target is
\* rejected with InvalidBlock, a block within its target that passes every
\* other check is accepted, and every block after the first is within its
\* target.
C4_ProofOfWork ==
    /\ (AddedToNonEmpty
        /\ ~matches_target(BlockHeader_hash(arg.header), arg.header.target))
           => Rejected(InvalidBlock)
    /\ (AddedToNonEmpty /\ ValidSuccessor(pre_blocks, pre_utxos, arg))
           => (result = Ok /\ blocks = Append(pre_blocks, arg))
    /\ \A i \in 2..Len(blocks) :
           matches_target(BlockHeader_hash(blocks[i].header), blocks[i].header.target)

\* C5: on a non-empty ledger a block that links and meets its target but
\* declares a merkle root other than the one recomputed from its transactions
\* is rejected with InvalidMerkleRoot; every block after the first declares
\* the root recomputed from its transactions.
C5_MerkleBinding ==
    /\ (AddedToNonEmpty
        /\ arg.header.prev_block_hash = BlockHeader_hash(LastOf(pre_blocks).header)
        /\ matches_target(BlockHeader_hash(arg.header), arg.header.target)
        /\ MerkleRoot_calculate(arg.transactions).tag = Ok
        /\ MerkleRoot_calculate(arg.transactions).root # arg.header.merkle_root)
           => Rejected(InvalidMerkleRoot)
    /\ \A i \in 2..Len(blocks) :
           MerkleRoot_calculate(blocks[i].transactions)
               = [tag |-> Ok, root |-> blocks[i].header.merkle_root]

C7_CrossBlockDoubleSpend ==
    (op = "add_block"
     /\ \E b \in 2..Len(pre_blocks) : InputKeys(pre_blocks[b]) \cap InputKeys(arg) # {})
        => (result # Ok /\ blocks = pre_blocks)

\* The positions (transaction, input) of a block's inputs.
InputPositions(block) ==
    UNION { { <<t, i>> : i \in 1..Len(block.transactions[t].inputs) } :
            t \in 1..Len(block.transactions) }

PrevAt(block, p) == block.transactions[p[1]].inputs[p[2]].prev_transaction_output_hash

\* Two inputs of the block, in one transaction or in two, carry the same
\* prev_transaction_output_hash.
HasDuplicateInput(block) ==
    \E p \in InputPositions(block), q \in InputPositions(block) :
        p # q /\ PrevAt(block, p) = PrevAt(block, q)

Verified == vt_result # "none"

\* C8: verify_transactions on a non-empty block in which two inputs carry the
\* same prev_transaction_output_hash returns InvalidTransaction, whatever the
\* snapshot.
C8_DoubleSpendInBlock ==
    (Verified /\ vt_block.transactions # <<>> /\ HasDuplicateInput(vt_block))
        => vt_result = InvalidTransaction

\* Two transactions after a well-formed coinbase spend the same output, which
\* the snapshot holds and both sign for, and the block was rejected with
\* InvalidTransaction.
C8_Witness ==
    /\ Verified
    /\ Len(vt_block.transactions) = 3
    /\ vt_block.transactions[1] = Coinbase(<<Amt(INITIAL_REWARD, 10)>>)
    /\ vt_block.transactions[2] = Spend(<<Key1>>, Alice, 90, 31)
    /\ vt_block.transactions[3] = Spend(<<Key1>>, Alice, 95, 32)
    /\ Key1 \in DOMAIN vt_utxos
    /\ HasDuplicateInput(vt_block)
    /\ vt_result = InvalidTransaction

\* floor(INITIAL_REWARD * 10^8 / 2^(h / HALVING_INTERVAL))
Subsidy(h) == AmtDivPow2(FullReward, h \div HALVING_INTERVAL)

\* Heights whose halving count fits the width of u64.
InU64Epochs(h) == h \div HALVING_INTERVAL < U64_BITS

\* C9: a block whose only transaction is a coinbase with no input and at
\* least one output verifies at height h exactly when its outputs total the
\* subsidy of h, and is rejected with InvalidTransaction for any other total.
C9_CoinbaseEconomics ==
    (/\ Verified
     /\ InU64Epochs(vt_height)
     /\ Len(vt_block.transactions) = 1
     /\ Len(vt_block.transactions[1].inputs) = 0
     /\ Len(vt_block.transactions[1].outputs) >= 1)
        => IF SumOutputs(vt_block.transactions[1].outputs) = Subsidy(vt_height)
               THEN vt_result = Ok
               ELSE vt_result = InvalidTransaction

\* The sum of the snapshot values a transaction's inputs resolve to.
RECURSIVE ResolvedInputValue(_, _, _)
ResolvedInputValue(ins, i, snapshot) ==
    IF i > Len(ins) THEN AmtZero
    ELSE AmtAdd(snapshot[ins[i].prev_transaction_output_hash].value,
                ResolvedInputValue(ins, i + 1, snapshot))

\* Sum over the transactions after the coinbase, from t on, of resolved input
\* value minus output value.
RECURSIVE FeesFrom(_, _, _)
FeesFrom(txs, t, snapshot) ==
    IF t > Len(txs) THEN AmtZero
    ELSE AmtAdd(AmtSub(ResolvedInputValue(txs[t].inputs, 1, snapshot),
                       SumOutputs(txs[t].outputs)),
                FeesFrom(txs, t + 1, snapshot))

\* A coinbase followed by transactions whose inputs all resolve in the
\* snapshot, are pairwise distinct, are validly signed and cover their outputs.
FeePayingBlock(block, snapshot) ==
    LET txs == block.transactions
    IN  /\ Len(txs) >= 2
        /\ Len(txs[1].inputs) = 0
        /\ Len(txs[1].outputs) >= 1
        /\ ~HasDuplicateInput(block)
        /\ \A t \in 2..Len(txs) :
            /\ \A i \in 1..Len(txs[t].inputs) :
                LET key == txs[t].inputs[i].prev_transaction_output_hash
                IN  /\ key \in DOMAIN snapshot
                    /\ Signature_verify(txs[t].inputs[i].signature, key,
                                        snapshot[key].pubkey)
            /\ (\A i \in 1..Len(txs[t].inputs) :
                    txs[t].inputs[i].prev_transaction_output_hash \in DOMAIN snapshot)
               => ~AmtLt(ResolvedInputValue(txs[t].inputs, 1, snapshot),
                         SumOutputs(txs[t].outputs))

\* C10: such a block verifies when the coinbase outputs total the subsidy
\* plus the fees of the other transactions, and is rejected with
\* InvalidTransaction when they total one unit more.
C10_FeeAccounting ==
    (Verified /\ InU64Epochs(vt_height) /\ FeePayingBlock(vt_block, vt_utxos))
        => LET total == SumOutputs(vt_block.transactions[1].outputs)
               due == AmtAdd(Subsidy(vt_height),
                             FeesFrom(vt_block.transactions, 2, vt_utxos))
           IN  /\ total = due => vt_result = Ok
               /\ total = AmtAdd(due, Amt(0, 1)) => vt_result = InvalidTransaction

\* ------------------------------------------- inputs of the rebuild runs
\* A transaction without inputs that creates two outputs.
TwoOutputs ==
    Transaction(<<>>, <<TransactionOutput(Amt(INITIAL_REWARD - 20, 0), 41, Alice),
                        TransactionOutput(Amt(20, 0), 42, Bob)>>)

\* The genesis output as an input names it: by its own content hash.
GenesisOutputKey == TransactionOutput_hash(GenesisCoinbase.outputs[1])

\* A spend of the genesis output that names it by its content hash.
SpendGenesisOutput ==
    Transaction(<<TransactionInput(GenesisOutputKey, Sign(Alice, GenesisOutputKey))>>,
                <<TransactionOutput(Amt(INITIAL_REWARD - 1, SUBUNIT - 10), 43, Bob)>>)

\* Transaction lists of the blocks of a stored chain.
RebuildTxLists ==
    { <<GenesisCoinbase>>,
      <<TwoOutputs>>,
      <<Coinbase(<<Amt(INITIAL_REWARD, 10)>>), SpendGenesis(1)>>,
      <<Coinbase(<<Amt(INITIAL_REWARD, 10)>>), SpendGenesisOutput>> }

\* The linked chain whose blocks hold the listed transaction lists.
RECURSIVE ChainOf(_)
ChainOf(lists) ==
    IF lists = <<>> THEN <<>>
    ELSE LET n == Len(lists)
             front == ChainOf(SubSeq(lists, 1, n - 1))
             prev == IF front = <<>> THEN Hash_zero
                     ELSE BlockHeader_hash(front[n - 1].header)
         IN  Append(front,
                    Block(BlockHeader(n, 0, prev, MerkleRoot_calculate(lists[n]).root, Target),
                          lists[n]))

RebuildChains == { ChainOf(lists) : lists \in SeqsUpTo(RebuildTxLists, MaxChain) }

\* An index entry no block of any stored chain produces.
StaleIndex == [k \in {Key1} |-> Unspent1]

PriorIndexes == {EmptyMap, StaleIndex}

\* A stored ledger: any chain, with an index that is empty or stale.
InitRebuild ==
    /\ blocks \in RebuildChains
    /\ utxos \in PriorIndexes
    /\ overflow_checks \in BOOLEAN
    /\ fresh = FALSE
    /\ op = "deserialize"
    /\ arg = NoBlock
    /\ result = Ok
    /\ pre_blocks = blocks
    /\ pre_utxos = utxos
    /\ vt_block = NoBlock
    /\ vt_height = 0
    /\ vt_utxos = EmptyMap
    /\ vt_result = "none"
    /\ fee_result = NotCalled
    /\ cb_result = "none"
    /\ merkle_result = NotCalled

NextRebuild == RebuildUtxos

SpecRebuild == InitRebuild /\ [][NextRebuild]_vars

\* C11: when the index is what one rebuild_utxos from an empty index made of
\* the chain, a further rebuild_utxos on the unchanged chain leaves it as it is.
C11_RebuildIdempotent ==
    (op = "rebuild_utxos" /\ pre_utxos = ReplayFromEmpty(blocks))
        => utxos = pre_utxos

\* A second rebuild_utxos ran on a chain of three blocks in which an output
\* was created and spent, and the index of the first was not empty.
C11_Witness ==
    /\ op = "rebuild_utxos"
    /\ Len(blocks) = 3
    /\ pre_utxos = ReplayFromEmpty(blocks)
    /\ pre_utxos # EmptyMap
    /\ utxos = pre_utxos
    /\ \E b \in 1..3 : GenesisKey \in InputKeys(blocks[b])
    /\ blocks[1].transactions = <<GenesisCoinbase>>

IsPrefix(p, q) == Len(p) <= Len(q) /\ SubSeq(q, 1, Len(p)) = p

\* C12: across every add_block and rebuild_utxos call the block sequence
\* before the call is a prefix of the one after it; a successful add_block
\* appends exactly its block at the end, a failed add_block and rebuild_utxos
\* leave the blocks as they were, and block_height is the number of blocks.
C12_AppendOnly ==
    /\ op \in {"add_block", "rebuild_utxos"} => IsPrefix(pre_blocks, blocks)
    /\ (op = "add_block" /\ result = Ok)
           => /\ blocks = Append(pre_blocks, arg)
              /\ block_height(blocks) = block_height(pre_blocks) + 1
    /\ (op = "add_block" /\ result # Ok) => blocks = pre_blocks
    /\ op = "rebuild_utxos" => blocks = pre_blocks
    /\ block_height(blocks) = Cardinality(DOMAIN blocks)

\* A successful add_block has made a chain of three blocks.
C12_Witness ==
    /\ op = "add_block"
    /\ result = Ok
    /\ Len(pre_blocks) = 2
    /\ blocks = Append(pre_blocks, arg)
    /\ arg # pre_blocks[1]

\* C13: whatever the index held before, after rebuild_utxos it is the replay
\* of the block sequence from an empty index.
C13_RebuildResets ==
    op = "rebuild_utxos" => utxos = ReplayFromEmpty(blocks)

\* Positions <<block, transaction, output>> of the outputs a chain creates.
OutputPositions(chain) ==
    UNION { UNION { { <<b, t, i>> : i \in 1..Len(chain[b].transactions[t].outputs) } :
                    t \in 1..Len(chain[b].transactions) } :
            b \in 1..Len(chain) }

OutputAt(chain, p) == chain[p[1]].transactions[p[2]].outputs[p[3]]

\* Some input of a transaction after the one at <<b, t>> references key k.
SpentLater(chain, b, t, k) ==
    \E b2 \in b..Len(chain) :
        \E t2 \in 1..Len(chain[b2].transactions) :
            /\ (b2 > b \/ t2 > t)
            /\ \E i \in 1..Len(chain[b2].transactions[t2].inputs) :
                   chain[b2].transactions[t2].inputs[i].prev_transaction_output_hash = k

\* The outputs of a chain no later input references, each under its own
\* content hash.
UnspentOutputs(chain) ==
    LET live == { p \in OutputPositions(chain) :
                      ~SpentLater(chain, p[1], p[2],
                                  TransactionOutput_hash(OutputAt(chain, p))) }
        keys == { TransactionOutput_hash(OutputAt(chain, p)) : p \in live }
    IN  [k \in keys |->
            OutputAt(chain, CHOOSE p \in live :
                                TransactionOutput_hash(OutputAt(chain, p)) = k)]

\* C14: after rebuild_utxos from an empty index the index holds exactly the
\* outputs of the chain that no later input references, every output under
\* its own content hash.
C14_ExactUnspentSet ==
    (op = "rebuild_utxos" /\ pre_utxos = EmptyMap) => utxos = UnspentOutputs(blocks)

\* Positions (transaction, output) of the outputs of the transactions after
\* the first.
LaterOutputPositions(block) ==
    UNION { { <<t, i>> : i \in 1..Len(block.transactions[t].outputs) } :
            t \in 2..Len(block.transactions) }

LaterInputPositions(block) == { p \in InputPositions(block) : p[1] >= 2 }

\* Every input after the coinbase resolves in the snapshot, no two of them
\* name the same output, and no two outputs after the coinbase hash alike.
FeeScanPasses(block, snapshot) ==
    /\ \A p \in LaterInputPositions(block) : PrevAt(block, p) \in DOMAIN snapshot
    /\ \A p \in LaterInputPositions(block), q \in LaterInputPositions(block) :
           p # q => PrevAt(block, p) # PrevAt(block, q)
    /\ \A p \in LaterOutputPositions(block), q \in LaterOutputPositions(block) :
           p # q => TransactionOutput_hash(block.transactions[p[1]].outputs[p[2]])
                        # TransactionOutput_hash(block.transactions[q[1]].outputs[q[2]])

\* Sum of the resolved input values of the transactions from t on.
RECURSIVE TotalIn(_, _, _)
TotalIn(txs, t, snapshot) ==
    IF t > Len(txs) THEN AmtZero
    ELSE AmtAdd(ResolvedInputValue(txs[t].inputs, 1, snapshot),
                TotalIn(txs, t + 1, snapshot))

\* Sum of the output values of the transactions from t on.
RECURSIVE TotalOut(_, _)
TotalOut(txs, t) ==
    IF t > Len(txs) THEN AmtZero
    ELSE AmtAdd(SumOutputs(txs[t].outputs), TotalOut(txs, t + 1))

FeesCalled == fee_result # NotCalled

\* C15: when the scan of calculate_miner_fees passes, the call does not abort,
\* returns no wrapped amount, and returns InvalidTransaction when the outputs
\* after the coinbase total more than the inputs they resolve to.
C15_CheckedFeeSubtraction ==
    (FeesCalled /\ FeeScanPasses(vt_block, vt_utxos))
        => /\ fee_result.tag # Panic
           /\ fee_result.tag = Ok => fee_result.val.c >= 0
           /\ AmtLt(TotalIn(vt_block.transactions, 2, vt_utxos),
                    TotalOut(vt_block.transactions, 2))
                  => fee_result.tag = InvalidTransaction

CoinbaseChecked == cb_result # "none"

\* C17: at every height, verify_coinbase_transaction on a block that holds a
\* well-formed coinbase only does not abort and accepts exactly the coinbase
\* whose outputs total floor(INITIAL_REWARD * 10^8 / 2^(h / HALVING_INTERVAL)),
\* the epochs past the width of u64 included.
C17_SubsidySchedule ==
    (/\ CoinbaseChecked
     /\ Len(vt_block.transactions) = 1
     /\ Len(vt_block.transactions[1].inputs) = 0
     /\ Len(vt_block.transactions[1].outputs) >= 1)
        => /\ cb_result # Panic
           /\ block_reward(vt_height) = [tag |-> Ok, val |-> Subsidy(vt_height)]
           /\ cb_result = IF SumOutputs(vt_block.transactions[1].outputs)
                                 = Subsidy(vt_height)
                              THEN Ok
                              ELSE InvalidTransaction

MerkleCalled == merkle_result # NotCalled

\* C18: MerkleRoot::calculate on an empty transaction list fails with a
\* result the caller can test instead of aborting, and verify_transactions on
\* a block without transactions returns InvalidBlock.
C18_EmptyListReported ==
    /\ (MerkleCalled /\ vt_block.transactions = <<>>) => merkle_result.tag # Panic
    /\ (Verified /\ vt_block.transactions = <<>>) => vt_result = InvalidBlock

\* hash([left, right])
PairHash(left, right) == Hash_hash("pair", <<left, right>>)

\* The root the pairing rule gives a list of one to four hashes.
PairedRoot(h) ==
    CASE Len(h) = 1 -> h[1]
      [] Len(h) = 2 -> PairHash(h[1], h[2])
      [] Len(h) = 3 -> PairHash(PairHash(h[1], h[2]), PairHash(h[3], h[3]))
      [] Len(h) = 4 -> PairHash(PairHash(h[1], h[2]), PairHash(h[3], h[4]))

\* C20: MerkleRoot::calculate on a non-empty list ends with one hash: the
\* transaction's own hash for a list of one, and otherwise the fold in which
\* each complete pair becomes hash([left, right]) and a trailing unpaired
\* element hash([left, left]).
C20_MerkleFold ==
    (MerkleCalled /\ vt_block.transactions # <<>>)
        => LET txs == vt_block.transactions
               leaves == [i \in 1..Len(txs) |-> Transaction_hash(txs[i])]
           IN  /\ merkle_result.tag = Ok
               /\ Len(txs) = 1 => merkle_result.root = Transaction_hash(txs[1])
               /\ Len(txs) <= 4 => merkle_result.root = PairedRoot(leaves)
               /\ merkle_result = MerkleRoot_calculate(txs)

\* The root of a list of three different transactions was computed.
C20_Witness ==
    /\ MerkleCalled
    /\ Len(vt_block.transactions) = 3
    /\ vt_block.transactions[1] # vt_block.transactions[2]
    /\ vt_block.transactions[2] # vt_block.transactions[3]
    /\ merkle_result.tag = Ok
    /\ merkle_result.root
           = PairHash(PairHash(Transaction_hash(vt_block.transactions[1]),
                               Transaction_hash(vt_block.transactions[2])),
                      PairHash(Transaction_hash(vt_block.transactions[3]),
                               Transaction_hash(vt_block.transactions[3])))

\* Some input of the block names an output that an earlier transaction of the
\* same block creates and the snapshot does not hold.
ChainsWithinBlock(block, snapshot) ==
    \E p \in InputPositions(block) :
        /\ PrevAt(block, p) \notin DOMAIN snapshot
        /\ \E t \in 1..(p[1] - 1) :
               \E j \in 1..Len(block.transactions[t].outputs) :
                   PrevAt(block, p) = TransactionOutput_hash(block.transactions[t].outputs[j])

ChainingRejected ==
    (Verified /\ ChainsWithinBlock(vt_block, vt_utxos)) => vt_result = InvalidTransaction

\* C19: verify_transactions rejects with InvalidTransaction every block in
\* which an input names an output created earlier in the same block and absent
\* from the snapshot, and no step changes the snapshot it was handed.
C19_NoIntraBlockChaining ==
    /\ []ChainingRejected
    /\ [][vt_utxos' = vt_utxos]_vars

\* A spend of the output of the spend in front of it, both behind a coinbase
\* that claims reward and fee, was rejected while the snapshot held what the
\* first spend consumes.
C19_Witness ==
    /\ Verified
    /\ vt_block.transactions = <<Coinbase(<<Amt(INITIAL_REWARD, 10)>>),
                                 Spend(<<Key1>>, Alice, 90, 31),
                                 Spend(<<ChainedKey>>, Bob, 80, 37)>>
    /\ Key1 \in DOMAIN vt_utxos
    /\ ChainsWithinBlock(vt_block, vt_utxos)
    /\ vt_result = InvalidTransaction

====
